---- MODULE Spec2Model ----
(***************************************************************************)
(* Lumina: the image-search backend (backend/api/routes.py,                *)
(* backend/services/image_service.py, backend/vectorStore.py,              *)
(* backend/clipEmbeddings.py) as a state machine.                          *)
(*                                                                         *)
(* The only mutable state is the remote vector index.  Every handler is    *)
(* one action; the outcome of each call to a remote service (it returns,   *)
(* or it raises) is an input of the action.  Besides the index, the state  *)
(* records the last handler that ran, its request, the Image Service's     *)
(* result, the HTTP response and the remote calls it made.                 *)
(***************************************************************************)
EXTENDS Integers, Sequences, FiniteSets, TLC

VARIABLES
    store,      \* the remote index: namespace -> (id -> stored item)
    op,         \* the last operation that ran
    req,        \* its inputs
    res,        \* the Image Service's result dictionary (NoResult: not called)
    http,       \* the HTTP response (NoHttp: the service was called directly)
    calls,      \* the calls made to lower layers, in order, each with its outcome
                \* (and, for a query that returned, the matches it returned)
    raised,     \* TRUE iff the operation let an exception reach its caller
    prevTotal,  \* total_vector_count of the index before the last operation
    index,      \* the remote's record of the index named "lumina":
                \* "absent", "initializing" (created, not ready) or "ready"
    inst        \* each service instance's place in VectorStore.__init__

vars == <<store, op, req, res, http, calls, raised, prevTotal, index, inst>>

----------------------------------------------------------------------------
\* Bounds of the model.

\* number of distinct image ids (values of uuid4().hex[:8], tester's indices)
MaxIds == 2
\* longest file list of a batch upload, longest imageData list
MaxBatch == 2
\* number of service instances (processes that construct a VectorStore)
MaxInstances == 2
\* most rounds of the readiness poll an instance is followed through
MaxPolls == 2
\* longest imageData list handed to storeMultipleImages in one call
MaxItems == 250

----------------------------------------------------------------------------
\* Program constants.

\* image_id: Optional[str] = None
NoId == 0
\* body.get("top_k", 10)
DefaultTopK == 10
\* if top_k < 1 or top_k > 100
MinTopK == 1
MaxTopK == 100
\* maxSize = 100 in storeMultipleImages
maxSize == 100
\* the namespace every caller names
ImagesNamespace == "images"
\* the namespace the index client uses when upsert/query/delete get no
\* `namespace` argument
DefaultNamespace == ""

Namespaces == {DefaultNamespace, ImagesNamespace}
ImageIds == 1..MaxIds
Instances == 1..MaxInstances

----------------------------------------------------------------------------
\* Inputs: files, photos, texts.

\* file.content_type as <<type, subtype>>; <<>> is a missing content type
NoContentType == <<>>

\* the uploaded files the handlers are tried on
SampleFiles ==
    { [filename |-> "cat.jpg",    content_type |-> <<"image", "jpeg">>, content |-> "cat"],
      [filename |-> "dog.png",    content_type |-> <<"image", "png">>,  content |-> "dog"],
      [filename |-> "broken.jpg", content_type |-> <<"image", "jpeg">>, content |-> "garbage"],
      [filename |-> "notes.txt",  content_type |-> <<"text", "plain">>, content |-> "garbage"],
      [filename |-> "blob",       content_type |-> NoContentType,       content |-> "cat"] }

\* Image.open(BytesIO(image_bytes)) raises on bytes that are no image
Decodable(file) == file.content # "garbage"

\* The embedding model maps an image or a text to a unit vector.  Vectors are
\* the four directions 0, 90, 180, 270 degrees, numbered 0..3.
Directions == 0..3

\* Embedder.embedImage: the vector of a decoded image
embedImage(content) == IF content = "cat" THEN 0 ELSE 1

\* Embedder.embedText: the vector of a query text
embedText(text) == IF text = "cat" THEN 0 ELSE IF text = "dog" THEN 1 ELSE 2

\* cosine similarity of two directions: 1, 0, -1, 0 for 0, 90, 180, 270 degrees
Cosine(a, b) ==
    LET d == (a - b + 4) % 4
    IN  IF d = 0 THEN 1 ELSE IF d = 2 THEN -1 ELSE 0

----------------------------------------------------------------------------
\* The remote index (Pinecone), as the client calls of vectorStore.py use it.

EmptyIndex == [ns \in Namespaces |-> <<>>]

\* idx.upsert(vectors=..., **kwargs): the client writes to the namespace given
\* by its `namespace` parameter; any other keyword leaves it at the default.
UpsertNamespace(kwargs) ==
    IF "namespace" \in DOMAIN kwargs THEN kwargs.namespace ELSE DefaultNamespace

\* one vector written: insert or overwrite
UpsertOne(space, v) ==
    [i \in (DOMAIN space) \cup {v.id} |->
        IF i = v.id THEN [vec |-> v.vec, meta |-> v.meta] ELSE space[i]]

\* the vectors of one call written in their order: of two vectors with the
\* same id the later one stays
UpsertAll(space, vectors) ==
    LET at(i) == {k \in DOMAIN vectors : vectors[k].id = i}
        lastAt(i) == CHOOSE k \in at(i) : \A m \in at(i) : m <= k
    IN  [i \in (DOMAIN space) \cup {vectors[k].id : k \in DOMAIN vectors} |->
            IF at(i) = {} THEN space[i] ELSE UpsertOne(space, vectors[lastAt(i)])[i]]

\* idx.upsert(vectors, **kwargs) when the call returns
Upsert(st, vectors, kwargs) ==
    LET ns == UpsertNamespace(kwargs)
    IN  [st EXCEPT ![ns] = UpsertAll(st[ns], vectors)]

\* idx.delete(ids, namespace) when the call returns: absent ids are ignored
Delete(st, ids, ns) ==
    [st EXCEPT ![ns] = [i \in (DOMAIN st[ns]) \ ids |-> st[ns][i]]]

\* stats.total_vector_count
TotalVectors(st) ==
    LET ids == UNION {DOMAIN st[ns] : ns \in Namespaces}
    IN  Cardinality({<<ns, i>> \in Namespaces \X ids : i \in DOMAIN st[ns]})

\* stats.namespaces
NamespaceCounts(st) == [ns \in Namespaces |-> Cardinality(DOMAIN st[ns])]

\* the index dimension the constructor creates the index with
Dimension == 1536

\* orders in which the index may list items of equal score: by rising and
\* by falling id
TieOrders ==
    { [k \in 1..MaxIds |-> k], [k \in 1..MaxIds |-> MaxIds + 1 - k] }

Position(order, i) == CHOOSE k \in DOMAIN order : order[k] = i

\* All items of a namespace with their cosine score against the query vector,
\* best first; items of equal score in the order `order`.
Ranked(st, vec, ns, order) ==
    LET ids == DOMAIN st[ns]
        n == Cardinality(ids)
        score(i) == Cosine(vec, st[ns][i].vec)
        before(i, j) ==
            \/ score(i) > score(j)
            \/ score(i) = score(j) /\ Position(order, i) < Position(order, j)
        p == CHOOSE q \in [1..n -> ids] :
                /\ \A a, b \in 1..n : a # b => q[a] # q[b]
                /\ \A a, b \in 1..n : a < b => before(q[a], q[b])
    IN  [k \in 1..n |-> [id |-> p[k], score |-> score(p[k]),
                         metadata |-> st[ns][p[k]].meta]]

\* idx.query(vector, top_k, namespace, include_metadata=True).matches
Query(st, vec, ns, top_k, order) ==
    LET s == Ranked(st, vec, ns, order)
    IN  SubSeq(s, 1, IF top_k < Len(s) THEN top_k ELSE Len(s))

----------------------------------------------------------------------------
\* VectorStore (vectorStore.py)

\* an instance before its constructor runs, and one whose constructor has
\* returned
NewInstance == [pc |-> "new", created |-> FALSE, polls |-> 0]
ConstructedInstance == [pc |-> "done", created |-> FALSE, polls |-> 0]

\* idxName not in self.pcone.list_indexes().names(): the list names every
\* index the remote has, ready or not
NotListed(remote) == remote = "absent"

\* the constructor after list_indexes(): create the index, or go on to
\* self.idx = self.pcone.Index(idxName)
AfterList(remote) == IF NotListed(remote) THEN "create" ELSE "bind"

\* self.pcone.describe_index(idxName).status['ready']
StatusReady(remote) == remote = "ready"

\* storeImage: one vector, metadata key "fileName", keyword nameSpace=
\* (the timestamp of the metadata is left out: no code reads it)
storeImage(st, imageId, embeddings, fileName, nameSpace) ==
    Upsert(st,
           << [id |-> imageId, vec |-> embeddings,
               meta |-> [type |-> "image", fileName |-> fileName]] >>,
           [nameSpace |-> nameSpace])

\* an upsert call of storeMultipleImages as logged: with the ids of its batch
UpsertCall(batch, ok) ==
    [call |-> "upsert", ok |-> ok, ids |-> [j \in DOMAIN batch |-> batch[j].id]]

\* a slice that ends one item late
SliceEndLate(i, n) == IF i + maxSize < n THEN i + maxSize ELSE n

\* vectors[i:i + maxSize] ends at the item before i + maxSize or at the end
\* of the list (items numbered from 1, i the first of the slice)
SliceEnd(i, n) == IF i + maxSize - 1 < n THEN i + maxSize - 1 ELSE n

\* the loop of storeMultipleImages from item i on: chunk number k is upserted
\* with keyword namespace=; the upsert of chunk number failAt raises, which
\* ends the method (failAt = 0: every upsert returns)
RECURSIVE StoreChunks(_, _, _, _, _, _, _)
StoreChunks(st, vectors, nameSpace, i, k, failAt, log) ==
    IF i > Len(vectors) THEN
        [store |-> st, raised |-> FALSE, calls |-> log]
    ELSE
        LET batch == SubSeq(vectors, i, SliceEnd(i, Len(vectors)))
        IN  IF k = failAt
            THEN [store |-> st, raised |-> TRUE,
                  calls |-> Append(log, UpsertCall(batch, FALSE))]
            ELSE StoreChunks(Upsert(st, batch, [namespace |-> nameSpace]),
                             vectors, nameSpace, i + maxSize, k + 1, failAt,
                             Append(log, UpsertCall(batch, TRUE)))

\* storeMultipleImages(imageData, nameSpace): metadata key "filename"
storeMultipleImages(st, imageData, nameSpace, failAt) ==
    LET vectors == [k \in 1..Len(imageData) |->
                       [id |-> imageData[k].id, vec |-> imageData[k].embedding,
                        meta |-> [type |-> "image", filename |-> imageData[k].filename]]]
    IN  StoreChunks(st, vectors, nameSpace, 1, 1, failAt, <<>>)

\* deleteId
deleteId(st, ids, namespace) == Delete(st, ids, namespace)

\* getStats: the dictionary built from describe_index_stats()
getStats(st) ==
    [total_vectors |-> TotalVectors(st),
     dimension |-> Dimension,
     namespaces |-> NamespaceCounts(st)]

----------------------------------------------------------------------------
\* ImageService (services/image_service.py)

NoResult == [called |-> FALSE]
NoHttp == [status |-> 0]

Call(name, ok) == [call |-> name, ok |-> ok]

\* The body of the try block of upload_image, which upload_images_batch
\* repeats for each file: read, seek, decode, embed, store.  `fault` names the
\* call the environment makes fail ("none": every call returns).
UploadSteps(st, file, id, fault) ==
    IF fault = "read" THEN
        [ok |-> FALSE, cause |-> "read failed", store |-> st,
         calls |-> << Call("read", FALSE) >>]
    ELSE IF ~Decodable(file) THEN
        [ok |-> FALSE, cause |-> "cannot identify image file", store |-> st,
         calls |-> << Call("read", TRUE), Call("seek", TRUE), Call("open", FALSE) >>]
    ELSE IF fault = "embed" THEN
        [ok |-> FALSE, cause |-> "embedding request failed", store |-> st,
         calls |-> << Call("read", TRUE), Call("seek", TRUE), Call("open", TRUE),
                      Call("embedImage", FALSE) >>]
    ELSE IF fault = "upsert" THEN
        [ok |-> FALSE, cause |-> "upsert request failed", store |-> st,
         calls |-> << Call("read", TRUE), Call("seek", TRUE), Call("open", TRUE),
                      Call("embedImage", TRUE), Call("upsert", FALSE) >>]
    ELSE
        [ok |-> TRUE, cause |-> "",
         store |-> storeImage(st, id, embedImage(file.content), file.filename,
                              ImagesNamespace),
         calls |-> << Call("read", TRUE), Call("seek", TRUE), Call("open", TRUE),
                      Call("embedImage", TRUE), Call("upsert", TRUE) >>]

\* upload_image(image_file, image_id): uuid is the value uuid4().hex[:8] takes
upload_image(st, file, image_id, uuid, fault) ==
    LET id == IF image_id = NoId THEN uuid ELSE image_id
        s == UploadSteps(st, file, id, fault)
    IN  [result |->
            IF s.ok
            THEN [message |-> "Image uploaded successfully",
                  image_id |-> id, filename |-> file.filename]
            ELSE [error |-> << "Failed to upload image: ", s.cause >>,
                  image_id |-> id],
         store |-> s.store, calls |-> s.calls, raised |-> FALSE]

\* RecordFailure with the failure swallowed instead of recorded
RecordFailureDropped(failed, file, cause) == failed

\* the except branch of the loop of upload_images_batch: the failure is
\* recorded and the loop goes on with the next file
RecordFailure(failed, file, cause) ==
    Append(failed, [filename |-> file.filename, error |-> cause])

\* the for loop of upload_images_batch, from file number i on
RECURSIVE BatchLoop(_, _, _, _, _, _, _, _)
BatchLoop(st, files, uuids, faults, i, uploaded_ids, failed, log) ==
    IF i > Len(files) THEN
        [store |-> st, uploaded_ids |-> uploaded_ids, failed |-> failed, calls |-> log]
    ELSE
        LET s == UploadSteps(st, files[i], uuids[i], faults[i])
        IN  IF s.ok
            THEN BatchLoop(s.store, files, uuids, faults, i + 1,
                           Append(uploaded_ids, uuids[i]), failed, log \o s.calls)
            ELSE BatchLoop(s.store, files, uuids, faults, i + 1,
                           uploaded_ids, RecordFailure(failed, files[i], s.cause),
                           log \o s.calls)

\* upload_images_batch(image_files)
upload_images_batch(st, files, uuids, faults) ==
    LET b == BatchLoop(st, files, uuids, faults, 1, <<>>, <<>>, <<>>)
    IN  [result |->
            [message |-> << "Uploaded ", Len(b.uploaded_ids), " images" >>,
             uploaded_ids |-> b.uploaded_ids,
             failed |-> b.failed,
             total_uploaded |-> Len(b.uploaded_ids),
             total_failed |-> Len(b.failed)],
         store |-> b.store, calls |-> b.calls, raised |-> FALSE]

\* SimilarityPercent without the shift of the score to [0, 2]
SimilarityPercentUnshifted(score) == score * 100

\* ((score + 1) / 2) * 100, in true division: with an integer score the
\* product is taken first so that the value stays exact
SimilarityPercent(score) == ((score + 1) * 100) \div 2

\* one entry of formatted_results
FormatMatch(match) ==
    [id |-> match.id,
     filename |-> IF "filename" \in DOMAIN match.metadata
                  THEN match.metadata.filename ELSE "Unknown",
     score |-> match.score,
     similarity_percent |-> SimilarityPercent(match.score)]

FormatResults(matches) == [k \in 1..Len(matches) |-> FormatMatch(matches[k])]

SearchError(query, cause) ==
    [error |-> << "Search failed: ", cause >>, query |-> query,
     results |-> <<>>, total_found |-> 0]

\* semanticSearch(queryEmbedding, namespace, top_k=top_k)
semanticSearch(st, queryEmbedding, namespace, top_k, order) ==
    Query(st, queryEmbedding, namespace, top_k, order)

\* search_images(query, top_k, namespace); the index refuses a top_k below 1
search_images(st, query, top_k, namespace, fault, order) ==
    IF fault = "embed" THEN
        [result |-> SearchError(query, "embedding request failed"),
         store |-> st, calls |-> << Call("embedText", FALSE) >>, raised |-> FALSE]
    ELSE IF fault = "query" \/ top_k < 1 THEN
        [result |-> SearchError(query, "query request failed"),
         store |-> st, calls |-> << Call("embedText", TRUE), Call("query", FALSE) >>,
         raised |-> FALSE]
    ELSE
        LET matches == semanticSearch(st, embedText(query), namespace, top_k, order)
        IN  [result |-> [query |-> query,
                         results |-> FormatResults(matches),
                         total_found |-> Len(FormatResults(matches))],
             store |-> st,
             calls |-> << Call("embedText", TRUE),
                          [call |-> "query", ok |-> TRUE, returned |-> matches] >>,
             raised |-> FALSE]

\* delete_image reporting an id that is not in the namespace as an error
delete_image_not_found(st, image_id, namespace, fault) ==
    IF fault = "delete" \/ image_id \notin DOMAIN st[namespace] THEN
        [result |-> [error |-> << "Failed to delete image: ", "not found" >>,
                     image_id |-> image_id],
         store |-> st, calls |-> << Call("delete", fault # "delete") >>, raised |-> FALSE]
    ELSE
        [result |-> [message |-> "Image deleted successfully", image_id |-> image_id],
         store |-> deleteId(st, {image_id}, namespace),
         calls |-> << Call("delete", TRUE) >>, raised |-> FALSE]

\* delete_image(image_id, namespace)
delete_image(st, image_id, namespace, fault) ==
    IF fault = "delete" THEN
        [result |-> [error |-> << "Failed to delete image: ", "delete request failed" >>,
                     image_id |-> image_id],
         store |-> st, calls |-> << Call("delete", FALSE) >>, raised |-> FALSE]
    ELSE
        [result |-> [message |-> "Image deleted successfully", image_id |-> image_id],
         store |-> deleteId(st, {image_id}, namespace),
         calls |-> << Call("delete", TRUE) >>, raised |-> FALSE]

\* get_database_stats()
get_database_stats(st, fault) ==
    IF fault = "stats" THEN
        [result |-> [error |-> << "Failed to get stats: ", "stats request failed" >>],
         store |-> st, calls |-> << Call("describe_index_stats", FALSE) >>,
         raised |-> FALSE]
    ELSE
        [result |-> getStats(st),
         store |-> st, calls |-> << Call("describe_index_stats", TRUE) >>,
         raised |-> FALSE]

\* stats.get(key, default)
DictGet(d, key, default) == IF key \in DOMAIN d THEN d[key] ELSE default

\* get_telemetry(): get_database_stats never raises, so the try block always
\* reaches its return
get_telemetry(st, fault, uptime) ==
    LET s == get_database_stats(st, fault)
        stats == s.result
    IN  [result |->
            [status |-> "operational",
             database |-> [connected |-> TRUE,
                           total_vectors |-> DictGet(stats, "total_vectors", 0),
                           dimension |-> DictGet(stats, "dimension", 0),
                           namespaces |-> DictGet(stats, "namespaces", <<>>)],
             embedding_service |-> [available |-> TRUE, model |-> "embed-v4.0"],
             uptime_seconds |-> uptime],
         store |-> s.store, calls |-> s.calls, raised |-> s.raised]

----------------------------------------------------------------------------
\* Values of a request: JSON values of the body, strings of the query string.
\* A string that int() may parse is a sequence of characters.

Absent == [kind |-> "absent"]
JInt(n) == [kind |-> "int", val |-> n]
JFloat(num, den) == [kind |-> "float", num |-> num, den |-> den]
JChars(chars) == [kind |-> "chars", chars |-> chars]
JText(text) == [kind |-> "text", text |-> text]
JNull == [kind |-> "null"]
\* a non-empty list
JList == [kind |-> "list"]

DigitChars == << "0", "1", "2", "3", "4", "5", "6", "7", "8", "9" >>
IsDigit(c) == \E k \in DOMAIN DigitChars : DigitChars[k] = c
DigitValue(c) == (CHOOSE k \in DOMAIN DigitChars : DigitChars[k] = c) - 1

RECURSIVE StripLeft(_)
StripLeft(cs) == IF cs # <<>> /\ Head(cs) = " " THEN StripLeft(Tail(cs)) ELSE cs

RECURSIVE StripRight(_)
StripRight(cs) ==
    IF cs # <<>> /\ cs[Len(cs)] = " " THEN StripRight(SubSeq(cs, 1, Len(cs) - 1)) ELSE cs

RECURSIVE DigitsValue(_, _)
DigitsValue(cs, acc) ==
    IF cs = <<>> THEN acc ELSE DigitsValue(Tail(cs), acc * 10 + DigitValue(Head(cs)))

PyOk(n) == [ok |-> TRUE, val |-> n, exc |-> "none"]
PyRaise(exc) == [ok |-> FALSE, val |-> 0, exc |-> exc]

\* int(s) for a string: surrounding blanks, an optional sign, decimal digits;
\* anything else raises ValueError
IntOfChars(chars) ==
    LET cs == StripRight(StripLeft(chars))
        signed == cs # <<>> /\ Head(cs) \in {"+", "-"}
        digits == IF signed THEN Tail(cs) ELSE cs
    IN  IF digits = <<>> \/ \E k \in DOMAIN digits : ~IsDigit(digits[k])
        THEN PyRaise("ValueError")
        ELSE IF signed /\ Head(cs) = "-"
             THEN PyOk(0 - DigitsValue(digits, 0))
             ELSE PyOk(DigitsValue(digits, 0))

\* int(x) of Python: an int is itself, a float is truncated towards zero, a
\* string is parsed, None and a list raise TypeError
PyInt(v) ==
    CASE v.kind = "int" -> PyOk(v.val)
      [] v.kind = "float" ->
            PyOk(IF v.num >= 0 THEN v.num \div v.den ELSE 0 - ((0 - v.num) \div v.den))
      [] v.kind = "chars" -> IntOfChars(v.chars)
      [] v.kind = "text" -> PyRaise("ValueError")
      [] OTHER -> PyRaise("TypeError")

\* `not x` of Python is false for a non-empty string
Truthy(v) ==
    CASE v.kind = "text" -> v.text # ""
      [] v.kind = "chars" -> v.chars # <<>>
      [] v.kind = "int" -> v.val # 0
      [] v.kind = "float" -> v.num # 0
      [] v.kind = "list" -> TRUE
      [] OTHER -> FALSE

\* d.get(key, default) on a request, where a missing key is Absent
GetOr(v, default) == IF v.kind = "absent" THEN default ELSE v

----------------------------------------------------------------------------
\* API layer (api/routes.py).  A route returns the HTTP response together with
\* what the Image Service returned and did.

Response(status, body) == [status |-> status, body |-> body]

NotCalled(st, response) ==
    [http |-> response, result |-> NoResult, store |-> st, calls |-> <<>>,
     raised |-> FALSE]

\* file.content_type and file.content_type.startswith('image/')
IsImageContentType(content_type) ==
    content_type # NoContentType /\ content_type[1] = "image"

\* if "error" in result: raise HTTPException(500, detail=result["error"])
\* return JSONResponse(content=result, status_code=200)
ErrorOr200(result) ==
    IF "error" \in DOMAIN result
    THEN Response(500, [detail |-> result.error])
    ELSE Response(200, result)

Served(r, response) ==
    [http |-> response, result |-> r.result, store |-> r.store, calls |-> r.calls,
     raised |-> r.raised]

\* POST /upload
upload_image_route(st, file, uuid, fault) ==
    IF ~IsImageContentType(file.content_type)
    THEN NotCalled(st, Response(400, [detail |-> "File must be an image"]))
    ELSE LET r == upload_image(st, file, NoId, uuid, fault)
         IN  Served(r, ErrorOr200(r.result))

\* POST /upload/batch handing the files to the service unvalidated
upload_images_batch_route_unvalidated(st, files, uuids, faults) ==
    LET r == upload_images_batch(st, files, uuids, faults)
    IN  Served(r, Response(200, r.result))

\* POST /upload/batch
upload_images_batch_route(st, files, uuids, faults) ==
    IF \E k \in DOMAIN files : ~IsImageContentType(files[k].content_type)
    THEN LET k == CHOOSE j \in DOMAIN files :
                    /\ ~IsImageContentType(files[j].content_type)
                    /\ \A h \in 1..(j - 1) : IsImageContentType(files[h].content_type)
         IN  NotCalled(st, Response(400,
                 [detail |-> << "File ", files[k].filename, " must be an image" >>]))
    ELSE LET r == upload_images_batch(st, files, uuids, faults)
         IN  Served(r, Response(200, r.result))

\* QueryMissing as `if query is None`: an empty string passes
QueryMissingNoneOnly(query) == query.kind = "null"

\* if not query: raise HTTPException(400, ...)
QueryMissing(query) == ~Truthy(query)

\* int(x) raised: ValueError has its own except clause, anything else falls
\* to except Exception
TopKError(exc) ==
    IF exc = "ValueError"
    THEN Response(400, [detail |-> "Invalid top_k value"])
    ELSE Response(500, [detail |-> << "Search failed: ", exc >>])

\* if top_k < 1 or top_k > 100
TopKOutOfRange(top_k) == top_k < MinTopK \/ top_k > MaxTopK

\* POST /search: request is [query, qs_top_k, body_top_k, qs_namespace]
search_route(st, request, fault, order) ==
    LET query == GetOr(request.query, JText(""))
    IN  IF QueryMissing(query)
        THEN NotCalled(st, Response(400, [detail |-> "Query parameter is required"]))
        ELSE
          LET top_k == PyInt(GetOr(request.qs_top_k,
                                   GetOr(request.body_top_k, JInt(DefaultTopK))))
              namespace == GetOr(request.qs_namespace, JText(ImagesNamespace))
          IN  IF ~top_k.ok
              THEN NotCalled(st, TopKError(top_k.exc))
              ELSE IF TopKOutOfRange(top_k.val)
              THEN NotCalled(st, Response(400,
                       [detail |-> "top_k must be between 1 and 100"]))
              ELSE LET r == search_images(st, query.text, top_k.val, namespace.text,
                                          fault, order)
                   IN  Served(r, ErrorOr200(r.result))

\* GET /stats
get_stats_route(st, fault) ==
    LET r == get_database_stats(st, fault)
    IN  Served(r, ErrorOr200(r.result))

\* DELETE /images/{image_id}?namespace=
delete_image_route(st, image_id, namespace, fault) ==
    LET ns == IF Truthy(namespace) THEN namespace.text ELSE ImagesNamespace
        r == delete_image(st, image_id, ns, fault)
    IN  Served(r, ErrorOr200(r.result))

\* GET /telemetry: 500 only if get_telemetry raises
get_telemetry_route(st, fault, uptime) ==
    LET r == get_telemetry(st, fault, uptime)
    IN  IF r.raised
        THEN Served(r, Response(500, [status |-> "error", error |-> "exception"]))
        ELSE Served(r, Response(200, r.result))

----------------------------------------------------------------------------
\* tester.py: the photos of the photos directory, photo number i stored
\* under the id Image_<i>

PhotoOf(i) ==
    IF i % 2 = 1
    THEN [filename |-> "cat.jpg", content |-> "cat"]
    ELSE [filename |-> "dog.png", content |-> "dog"]

\* allImages, for the photos `loaded` (those Image.open and the embedding
\* call accepted), in the order of their numbers
RECURSIVE AllImages(_, _)
AllImages(loaded, i) ==
    IF i > MaxIds THEN <<>>
    ELSE IF i \in loaded
         THEN << [id |-> i, embedding |-> embedImage(PhotoOf(i).content),
                  filename |-> PhotoOf(i).filename] >> \o AllImages(loaded, i + 1)
         ELSE AllImages(loaded, i + 1)

\* allImages when the first n photos all loaded
Photos(n) ==
    [i \in 1..n |-> [id |-> i, embedding |-> embedImage(PhotoOf(i).content),
                     filename |-> PhotoOf(i).filename]]

----------------------------------------------------------------------------
\* The inputs the handlers are tried on.

\* A file together with the remote call that fails while it is handled
\* ("none": every call returns).  A failure after the decoding is tried only
\* on files that decode.
UploadFaults(file) ==
    IF Decodable(file) THEN {"none", "read", "embed", "upsert"} ELSE {"none", "read"}

UploadCases ==
    { [file |-> f, fault |-> x] :
        f \in SampleFiles, x \in {"none", "read", "embed", "upsert"} }

\* the uploads POST /upload is tried on
RouteUploadCases ==
    { c \in UploadCases :
        c.fault \in (IF IsImageContentType(c.file.content_type)
                     THEN UploadFaults(c.file) ELSE {"none"}) }

\* the uploads upload_image is called on directly
ServiceUploadCases ==
    { c \in UploadCases :
        /\ IsImageContentType(c.file.content_type)
        /\ c.fault \in UploadFaults(c.file) }

\* the files of a batch, each with the call that fails
BatchCases ==
    { c \in RouteUploadCases :
        /\ c.file.filename \in {"cat.jpg", "broken.jpg", "notes.txt", "blob"}
        /\ c.fault \in {"none", "upsert"} }

\* the lists of length n over S
Lists(S, n) == [1..n -> S]

\* the ids uuid4 gives the files of a batch: consecutive from `first`
BatchUuids(first, n) == [k \in 1..n |-> ((first + k - 2) % MaxIds) + 1]

\* top_k as given in the query string and in the body
TopKCases ==
    { [qs |-> Absent, body |-> b] :
        b \in { Absent, JInt(MinTopK - 1), JInt(MinTopK), JInt(MaxTopK),
                JInt(MaxTopK + 1), JFloat(2 * MaxTopK + 1, 2), JNull, JList,
                JChars(<< "7" >>), JChars(<< "a", "b", "c" >>) } }
    \cup
    { [qs |-> JChars(<< "1" >>), body |-> Absent],
      [qs |-> JChars(<< "1", "0", "0" >>), body |-> JInt(MinTopK - 1)],
      [qs |-> JChars(<< "0" >>), body |-> JInt(MinTopK)],
      [qs |-> JChars(<< "1", "0", "1" >>), body |-> Absent],
      [qs |-> JChars(<< "a", "b", "c" >>), body |-> JInt(MinTopK)],
      [qs |-> JChars(<< "5", ".", "5" >>), body |-> Absent],
      [qs |-> JChars(<< " ", "2", " " >>), body |-> JNull] }

SearchRequests ==
    { [query |-> q, qs_top_k |-> Absent, body_top_k |-> b, qs_namespace |-> Absent] :
        q \in {Absent, JText(""), JNull}, b \in {Absent, JNull, JInt(MaxTopK + 1)} }
    \cup
    { [query |-> JText("cat"), qs_top_k |-> t.qs, body_top_k |-> t.body,
       qs_namespace |-> Absent] : t \in TopKCases }
    \cup
    { [query |-> JText(q), qs_top_k |-> Absent, body_top_k |-> b,
       qs_namespace |-> JText(DefaultNamespace)] :
        q \in {"cat", "bird"}, b \in {Absent, JInt(MinTopK)} }

\* the outcomes of the remote calls a handler is tried with: a handler whose
\* query call returns is tried with each order of equal scores
SearchOutcomes ==
    { [fault |-> "none", order |-> o] : o \in TieOrders }
    \cup
    { [fault |-> f, order |-> CHOOSE o \in TieOrders : TRUE] : f \in {"embed", "query"} }

\* top_k of a direct call of search_images
ServiceTopKs == {MinTopK - 1, MinTopK, MaxIds}

----------------------------------------------------------------------------
\* The state machine.

Init ==
    /\ store = EmptyIndex
    /\ op = "idle"
    /\ req = <<>>
    /\ res = NoResult
    /\ http = NoHttp
    /\ calls = <<>>
    /\ raised = FALSE
    /\ prevTotal = TotalVectors(EmptyIndex)
    /\ index = "ready"
    /\ inst = [i \in Instances |-> ConstructedInstance]

\* a request is taken up when the one before it has been answered; the
\* operation runs: r is what it returned and did
Ran(name, request, r, response) ==
    /\ op = "idle"
    /\ store' = r.store
    /\ op' = name
    /\ req' = request
    /\ res' = r.result
    /\ http' = response
    /\ calls' = r.calls
    /\ raised' = r.raised
    /\ prevTotal' = TotalVectors(store)
    /\ UNCHANGED <<index, inst>>

\* ---- the handlers of the API layer

PostUpload ==
    \E c \in RouteUploadCases, uuid \in ImageIds :
        LET r == upload_image_route(store, c.file, uuid, c.fault)
        IN  Ran("POST /upload", [file |-> c.file], r, r.http)

PostUploadBatch ==
    \E n \in 1..MaxBatch :
        \E cs \in Lists(BatchCases, n), first \in ImageIds :
            LET files == [k \in 1..n |-> cs[k].file]
                faults == [k \in 1..n |-> cs[k].fault]
                r == upload_images_batch_route(store, files, BatchUuids(first, n), faults)
            IN  Ran("POST /upload/batch", [files |-> files, faults |-> faults], r, r.http)

PostSearch ==
    \E request \in SearchRequests, env \in SearchOutcomes :
        LET r == search_route(store, request, env.fault, env.order)
        IN  Ran("POST /search", request, r, r.http)

GetStats ==
    \E fault \in {"none", "stats"} :
        LET r == get_stats_route(store, fault)
        IN  Ran("GET /stats", <<>>, r, r.http)

DeleteImage ==
    \E image_id \in ImageIds,
       namespace \in {Absent, JText(DefaultNamespace), JText(ImagesNamespace)},
       fault \in {"none", "delete"} :
        LET r == delete_image_route(store, image_id, namespace, fault)
        IN  Ran("DELETE /images", [image_id |-> image_id, namespace |-> namespace],
                r, r.http)

GetTelemetry ==
    \E fault \in {"none", "stats"}, uptime \in {0, 60} :
        LET r == get_telemetry_route(store, fault, uptime)
        IN  Ran("GET /telemetry", <<>>, r, r.http)

\* ---- direct calls of the Image Service

CallUploadImage ==
    \E c \in ServiceUploadCases, image_id \in ImageIds :
        LET r == upload_image(store, c.file, image_id, image_id, c.fault)
        IN  Ran("upload_image", [file |-> c.file, image_id |-> image_id], r, NoHttp)

CallSearchImages ==
    \E query \in {"cat", "bird"}, top_k \in ServiceTopKs,
       namespace \in Namespaces, env \in SearchOutcomes :
        LET r == search_images(store, query, top_k, namespace, env.fault, env.order)
        IN  Ran("search_images",
                [query |-> query, top_k |-> top_k, namespace |-> namespace], r, NoHttp)

CallDeleteImage ==
    \E image_id \in ImageIds, namespace \in Namespaces, fault \in {"none", "delete"} :
        LET r == delete_image(store, image_id, namespace, fault)
        IN  Ran("delete_image", [image_id |-> image_id, namespace |-> namespace],
                r, NoHttp)

\* ---- tester.py: the photos that loaded are stored in one call

TesterStore ==
    \E loaded \in (SUBSET ImageIds) \ {{}}, failAt \in 0..1 :
        LET r == storeMultipleImages(store, AllImages(loaded, 1), ImagesNamespace, failAt)
        IN  Ran("storeMultipleImages", [loaded |-> loaded],
                [result |-> NoResult, store |-> r.store, calls |-> r.calls,
                 raised |-> r.raised], NoHttp)

\* the answer is delivered: the server waits for the next request
Respond ==
    /\ op # "idle"
    /\ op' = "idle"
    /\ req' = <<>>
    /\ res' = NoResult
    /\ http' = NoHttp
    /\ calls' = <<>>
    /\ raised' = FALSE
    /\ prevTotal' = TotalVectors(store)
    /\ UNCHANGED <<store, index, inst>>

Next ==
    \/ PostUpload
    \/ PostUploadBatch
    \/ PostSearch
    \/ GetStats
    \/ DeleteImage
    \/ GetTelemetry
    \/ CallUploadImage
    \/ CallSearchImages
    \/ CallDeleteImage
    \/ TesterStore
    \/ Respond

Spec == Init /\ [][Next]_vars

----------------------------------------------------------------------------
\* Construction: every service instance runs VectorStore.__init__ against
\* the same remote; no request is served meanwhile.

InitConstruct ==
    /\ store = EmptyIndex
    /\ op = "idle"
    /\ req = <<>>
    /\ res = NoResult
    /\ http = NoHttp
    /\ calls = <<>>
    /\ raised = FALSE
    /\ prevTotal = TotalVectors(EmptyIndex)
    /\ index \in {"absent", "ready"}
    /\ inst = [i \in Instances |-> NewInstance]

Handlers == <<store, op, req, res, http, calls, raised, prevTotal>>

\* existingIndex = self.pcone.list_indexes().names(); if idxName not in ...
ListIndexes(i) ==
    /\ inst[i].pc = "new"
    /\ inst' = [inst EXCEPT ![i].pc = AfterList(index)]
    /\ UNCHANGED <<index, Handlers>>

\* self.pcone.create_index(name=idxName, ...): the remote refuses a name it
\* already has, and the exception ends the constructor
CreateIndex(i) ==
    /\ inst[i].pc = "create"
    /\ IF index = "absent"
       THEN /\ index' = "initializing"
            /\ inst' = [inst EXCEPT ![i].pc = "poll", ![i].created = TRUE]
       ELSE /\ index' = index
            /\ inst' = [inst EXCEPT ![i].pc = "failed"]
    /\ UNCHANGED Handlers

\* while not describe_index(idxName).status['ready']: time.sleep(1)
PollReady(i) ==
    /\ inst[i].pc = "poll"
    /\ IF StatusReady(index)
       THEN inst' = [inst EXCEPT ![i].pc = "bind"]
       ELSE /\ inst[i].polls < MaxPolls
            /\ inst' = [inst EXCEPT ![i].polls = @ + 1]
    /\ UNCHANGED <<index, Handlers>>

\* self.idx = self.pcone.Index(idxName): the constructor returns
BindIndex(i) ==
    /\ inst[i].pc = "bind"
    /\ inst' = [inst EXCEPT ![i].pc = "done"]
    /\ UNCHANGED <<index, Handlers>>

\* the remote finishes the creation of the index
RemoteReady ==
    /\ index = "initializing"
    /\ index' = "ready"
    /\ UNCHANGED <<inst, Handlers>>

NextConstruct ==
    \/ \E i \in Instances : ListIndexes(i)
    \/ \E i \in Instances : CreateIndex(i)
    \/ \E i \in Instances : PollReady(i)
    \/ \E i \in Instances : BindIndex(i)
    \/ RemoteReady

SpecConstruct == InitConstruct /\ [][NextConstruct]_vars

----------------------------------------------------------------------------
\* Bulk load: one call of storeMultipleImages on a list of up to MaxItems
\* items, on the empty index; the upsert of chunk number failAt raises.

FailAts == 0 .. (MaxItems \div maxSize) + 1

StoreMany ==
    \E n \in 0..MaxItems, failAt \in FailAts :
        LET r == storeMultipleImages(store, Photos(n), ImagesNamespace, failAt)
        IN  Ran("storeMultipleImages", [n |-> n, failAt |-> failAt],
                [result |-> NoResult, store |-> r.store, calls |-> r.calls,
                 raised |-> r.raised], NoHttp)

NextChunks == StoreMany

SpecChunks == Init /\ [][NextChunks]_vars

----------------------------------------------------------------------------
\* Properties.

UploadOps == {"upload_image", "POST /upload"}
DeleteOps == {"delete_image", "DELETE /images"}
SearchOps == {"search_images", "POST /search"}

\* the Image Service was called by the last operation
ServiceCalled == op # "idle" /\ op # "storeMultipleImages" /\ res # NoResult

\* a call to a lower layer failed during the last operation
SomeCallFailed == \E k \in DOMAIN calls : ~calls[k].ok

\* the result dictionary holds an error string: its own, or one per failed
\* file of a batch
HasErrorString(result) ==
    \/ "error" \in DOMAIN result
    \/ /\ "failed" \in DOMAIN result
       /\ result.failed # <<>>
       /\ \A k \in DOMAIN result.failed : "error" \in DOMAIN result.failed[k]

\* C1: no public operation of the Image Service lets an exception reach its
\* caller, and whenever one of its internal steps (read, decode, embedding
\* call, index call) failed, the result it returns holds an error string.
C1_FailuresReturnedAsErrors ==
    ServiceCalled => /\ ~raised
                     /\ SomeCallFailed => HasErrorString(res)

\* the last operation was an upload_image that returned its success result
UploadSucceeded == op \in UploadOps /\ res # NoResult /\ "error" \notin DOMAIN res

\* the ids of the results search_images gives on the state st
FoundIds(st, query, top_k, namespace, order) ==
    LET r == search_images(st, query, top_k, namespace, "none", order).result
    IN  {r.results[k].id : k \in DOMAIN r.results}

\* C2: after a successful upload_image the item is stored in the namespace
\* "images": a search of the default namespace "images" whose top_k is at
\* least the number of stored items returns the image's id, total_found >= 1.
C2_UploadThenSearchFinds ==
    UploadSucceeded =>
        /\ res.image_id \in DOMAIN store[ImagesNamespace]
        /\ \A query \in {"cat", "dog", "bird"}, order \in TieOrders :
              LET r == search_images(store, query, TotalVectors(store),
                                     ImagesNamespace, "none", order).result
              IN  /\ res.image_id \in FoundIds(store, query, TotalVectors(store),
                                               ImagesNamespace, order)
                  /\ r.total_found >= 1

\* the batch upload ran its loop over the files of the request
BatchRan == op = "POST /upload/batch" /\ res # NoResult

\* file number k of the batch met no failure: it decodes and no call failed
FileSucceeds(k) == Decodable(req.files[k]) /\ req.faults[k] = "none"

\* the calls named `name` of the last operation, in order
CallsNamed(name) == SelectSeq(calls, LAMBDA c : c.call = name)

\* the sublist of the files of the batch that meet a failure
RECURSIVE FailingFiles(_)
FailingFiles(k) ==
    IF k > Len(req.files) THEN <<>>
    ELSE IF FileSucceeds(k) THEN FailingFiles(k + 1)
         ELSE << req.files[k].filename >> \o FailingFiles(k + 1)

\* C3: a batch of N files gives total_uploaded + total_failed = N,
\* total_uploaded = len(uploaded_ids), total_failed = len(failed); every file
\* is processed whatever happened to the files before it, each file that
\* meets no failure is upserted and its id is in the index afterwards, and
\* exactly the files that meet a failure are listed in `failed`.
C3_BatchCountsAndIndependence ==
    BatchRan =>
        LET N == Len(req.files)
            ok == {k \in 1..N : FileSucceeds(k)}
        IN  /\ res.total_uploaded + res.total_failed = N
            /\ res.total_uploaded = Len(res.uploaded_ids)
            /\ res.total_failed = Len(res.failed)
            /\ Len(CallsNamed("read")) = N
            /\ res.total_uploaded = Cardinality(ok)
            /\ Len(SelectSeq(CallsNamed("upsert"), LAMBDA c : c.ok)) = Cardinality(ok)
            /\ \A j \in DOMAIN res.uploaded_ids :
                  \E ns \in Namespaces : res.uploaded_ids[j] \in DOMAIN store[ns]
            /\ [j \in DOMAIN res.failed |-> res.failed[j].filename] = FailingFiles(1)

\* a batch in which a file that fails is followed by a file that is stored
C3_Witness ==
    /\ BatchRan
    /\ \E j, k \in DOMAIN req.files : j < k /\ ~FileSucceeds(j) /\ FileSucceeds(k)
    /\ res.total_uploaded >= 1
    /\ res.total_failed >= 1

\* ---- POST /search: validation

\* the request carries a non-empty query string
QueryGiven == req.query.kind = "text" /\ req.query.text # ""

\* the effective top_k: the query-string value if present, otherwise the
\* body value, otherwise 10
EffectiveTopK ==
    IF req.qs_top_k.kind # "absent" THEN req.qs_top_k
    ELSE IF req.body_top_k.kind # "absent" THEN req.body_top_k
    ELSE JInt(DefaultTopK)

Trimmed(chars) == StripRight(StripLeft(chars))
Unsigned(cs) == IF cs # <<>> /\ Head(cs) \in {"+", "-"} THEN Tail(cs) ELSE cs

\* the characters write a whole number
WritesInteger(chars) ==
    LET ds == Unsigned(Trimmed(chars))
    IN  ds # <<>> /\ \A k \in DOMAIN ds : IsDigit(ds[k])

\* the characters write a decimal number
WritesNumber(chars) ==
    LET ds == Unsigned(Trimmed(chars))
    IN  /\ \E k \in DOMAIN ds : IsDigit(ds[k])
        /\ \A k \in DOMAIN ds : IsDigit(ds[k]) \/ ds[k] = "."
        /\ Cardinality({k \in DOMAIN ds : ds[k] = "."}) <= 1

\* the whole number the characters write
WrittenInteger(chars) ==
    LET cs == Trimmed(chars)
        n == DigitsValue(Unsigned(cs), 0)
    IN  IF Head(cs) = "-" THEN 0 - n ELSE n

\* the value is no number
NonNumeric(v) ==
    \/ v.kind \in {"null", "list", "text"}
    \/ v.kind = "chars" /\ ~WritesNumber(v.chars)

\* the value is a number outside [1, 100]
OutsideRange(v) ==
    \/ v.kind = "int" /\ (v.val < 1 \/ v.val > 100)
    \/ v.kind = "float" /\ (v.num < v.den \/ v.num > 100 * v.den)
    \/ /\ v.kind = "chars"
       /\ WritesInteger(v.chars)
       /\ (WrittenInteger(v.chars) < 1 \/ WrittenInteger(v.chars) > 100)

\* the value is one of 1..100
WithinRange(v) ==
    \/ v.kind = "int" /\ v.val >= 1 /\ v.val <= 100
    \/ /\ v.kind = "chars"
       /\ WritesInteger(v.chars)
       /\ WrittenInteger(v.chars) >= 1 /\ WrittenInteger(v.chars) <= 100

\* C4: POST /search with a non-empty query answers 400 whenever the effective
\* top_k is no number or lies outside [1,100], and a top_k of 1..100 is never
\* rejected: it reaches the service, and the answer is 200 when the remote
\* calls succeed.
C4_TopKValidation ==
    (op = "POST /search" /\ QueryGiven) =>
        /\ (NonNumeric(EffectiveTopK) \/ OutsideRange(EffectiveTopK)) => http.status = 400
        /\ WithinRange(EffectiveTopK) =>
              /\ res # NoResult
              /\ ~SomeCallFailed => http.status = 200

\* the request has no query or an empty string as query
QueryMissingOrEmpty == req.query.kind = "absent" \/ req.query = JText("")

\* C5: POST /search with a missing or empty-string query answers 400, and
\* neither the embedding client nor the vector store has been called.
C5_QueryValidatedBeforeAnyCall ==
    (op = "POST /search" /\ QueryMissingOrEmpty) =>
        /\ http.status = 400
        /\ calls = <<>>
        /\ res = NoResult
        /\ TotalVectors(store) = prevTotal

\* an empty-string query was answered 400, in a request whose top_k (null)
\* would have been answered 500 had it been looked at
C5_Witness ==
    /\ op = "POST /search"
    /\ req.query = JText("")
    /\ req.body_top_k = JNull
    /\ http.status = 400
    /\ calls = <<>>

\* ---- error responses

\* the last operation was an upload or a delete that failed in the service
UploadOrDeleteFailed ==
    op \in (UploadOps \cup DeleteOps) /\ res # NoResult /\ "error" \in DOMAIN res

\* C6: every error response of a failed upload or delete carries the
\* image_id of the failed operation and an error string, in the result of the
\* Image Service as well as in the HTTP error response derived from it.
C6_ErrorsCarryImageId ==
    UploadOrDeleteFailed =>
        /\ "image_id" \in DOMAIN res
        /\ res.image_id \in ImageIds
        /\ res.error # <<>>
        /\ http # NoHttp =>
              /\ http.status >= 400
              /\ "detail" \in DOMAIN http.body
              /\ "image_id" \in DOMAIN http.body
              /\ http.body.image_id = res.image_id

\* the stats call of the index failed during the last operation
StatsCallFailed ==
    \E k \in DOMAIN calls : calls[k].call = "describe_index_stats" /\ ~calls[k].ok

\* C7: when the stats call of the vector store fails, GET /telemetry answers
\* 500 with a body of status "error", never 200 with status "operational"
\* and database.connected = true.
C7_TelemetryReportsStatsFailure ==
    (op = "GET /telemetry" /\ StatsCallFailed) =>
        /\ http.status = 500
        /\ http.body.status = "error"
        /\ ~(http.body.status = "operational" /\ http.body.database.connected)

\* ---- the index across upload and delete

\* C8: a successful upload_image raises total_vectors by exactly 1, and a
\* following delete_image of the returned image_id with the default namespace
\* lowers it by exactly 1 again.
C8_UploadAddsOneDeleteRemovesIt ==
    UploadSucceeded =>
        /\ TotalVectors(store) = prevTotal + 1
        /\ LET d == delete_image(store, res.image_id, ImagesNamespace, "none")
           IN  /\ "error" \notin DOMAIN d.result
               /\ TotalVectors(d.store) = TotalVectors(store) - 1
               /\ TotalVectors(d.store) = prevTotal

\* the last operation was a delete_image whose delete call returned
DeleteReturned ==
    /\ op \in DeleteOps
    /\ calls = << Call("delete", TRUE) >>

\* the namespace the last delete named: the route replaces a missing or
\* empty namespace by "images"
DeletedNamespace ==
    IF op = "delete_image" THEN req.namespace
    ELSE IF req.namespace.kind = "text" /\ req.namespace.text # ""
         THEN req.namespace.text ELSE ImagesNamespace

\* C9: delete_image is idempotent.  A delete whose index call returns gives
\* the success result {message, image_id} without an error key, whether or
\* not the id was stored; the same call made again gives the same result
\* and leaves the index as the first call left it; so does a delete of an id
\* that is in no namespace.
C9_DeleteIdempotent ==
    /\ DeleteReturned =>
          /\ DOMAIN res = {"message", "image_id"}
          /\ res.image_id = req.image_id
          /\ req.image_id \notin DOMAIN store[DeletedNamespace]
          /\ LET again == delete_image(store, req.image_id, DeletedNamespace, "none")
             IN  /\ again.result = res
                 /\ again.store = store
    /\ \A id \in ImageIds, ns \in Namespaces :
          id \notin DOMAIN store[ns] =>
              LET d == delete_image(store, id, ns, "none")
              IN  /\ DOMAIN d.result = {"message", "image_id"}
                  /\ d.store = store

\* a delete of an id that was not in the namespace returned the success
\* result and removed nothing, in an index that holds other items
C9_Witness ==
    /\ DeleteReturned
    /\ "error" \notin DOMAIN res
    /\ TotalVectors(store) = prevTotal
    /\ TotalVectors(store) >= 1

\* ---- search results

\* the last operation was a search whose query call returned
SearchReturned ==
    /\ op \in SearchOps
    /\ res # NoResult
    /\ Len(calls) = 2
    /\ calls[2].call = "query" /\ calls[2].ok

\* C10: for every match the index returns, with a score in [-1,1],
\* similarity_percent = (score + 1) / 2 * 100, which lies in [0,100] and
\* does not fall when the score rises; the results come in the order of the
\* matches, and total_found is their number.
C10_SimilarityPercent ==
    SearchReturned =>
        LET matches == calls[2].returned
            results == res.results
        IN  /\ Len(results) = Len(matches)
            /\ res.total_found = Len(results)
            /\ \A k \in DOMAIN matches :
                  /\ results[k].id = matches[k].id
                  /\ results[k].score = matches[k].score
                  /\ matches[k].score >= -1 /\ matches[k].score <= 1
                  /\ 2 * results[k].similarity_percent = (matches[k].score + 1) * 100
                  /\ results[k].similarity_percent >= 0
                  /\ results[k].similarity_percent <= 100
            /\ \A j, k \in DOMAIN results :
                  results[j].score <= results[k].score =>
                      results[j].similarity_percent <= results[k].similarity_percent

\* a search returned two matches of different scores
C10_Witness ==
    /\ SearchReturned
    /\ Len(res.results) >= 2
    /\ res.results[1].score > res.results[2].score
    /\ res.results[1].similarity_percent > res.results[2].similarity_percent

\* ---- construction

\* the constructor of instance i has returned normally
Constructed(i) == inst[i].pc = "done"

\* C11: whenever VectorStore construction returns normally, the named index
\* exists and the remote reports it ready, whether this instance created it
\* or found it present, other instances constructing at the same time.
C11_ConstructedIndexReady ==
    \A i \in Instances : Constructed(i) => index = "ready"

\* ---- bulk load

\* storeMultipleImages ran on the first req.n photos
StoredMany == op = "storeMultipleImages" /\ "n" \in DOMAIN req

\* the ids of the first k logged upserts, one after the other
RECURSIVE JoinedIds(_, _)
JoinedIds(log, k) ==
    IF k = 0 THEN <<>> ELSE JoinedIds(log, k - 1) \o log[k].ids

\* the ids the upserts that returned have written
WrittenIds(log) ==
    UNION { {log[k].ids[j] : j \in DOMAIN log[k].ids} : k \in {c \in DOMAIN log : log[c].ok} }

\* C12: storeMultipleImages on N items upserts consecutive chunks of at most
\* 100 items in input order, every item in exactly one chunk; when the upsert
\* of chunk k fails the failure reaches the caller, chunks 1..k-1 stay stored
\* and no later chunk is attempted.
C12_ChunkedStore ==
    StoredMany =>
        LET input == [i \in 1..req.n |-> Photos(req.n)[i].id]
            sent == JoinedIds(calls, Len(calls))
        IN  /\ \A k \in DOMAIN calls :
                /\ calls[k].call = "upsert"
                /\ Len(calls[k].ids) \in 1..maxSize
                /\ k < Len(calls) => calls[k].ok /\ Len(calls[k].ids) = maxSize
            /\ Len(sent) <= Len(input)
            /\ sent = SubSeq(input, 1, Len(sent))
            /\ raised <=> (calls # <<>> /\ ~calls[Len(calls)].ok)
            /\ ~raised => sent = input
            /\ raised => Len(calls) = req.failAt
            /\ DOMAIN store[ImagesNamespace] = WrittenIds(calls)
            /\ store[DefaultNamespace] = <<>>

\* three chunks are due, the second fails: the first stays stored, the third
\* is never sent
C12_Witness ==
    /\ StoredMany
    /\ req.n > 2 * maxSize
    /\ raised
    /\ Len(calls) = 2
    /\ Cardinality(DOMAIN store[ImagesNamespace]) = maxSize

\* ---- filenames of search results

\* the metadata storeImage writes, which is how upload_image and
\* upload_images_batch store an image
StoredByUpload(metadata) == "fileName" \in DOMAIN metadata

\* C13: for every image stored through upload_image or upload_images_batch
\* under the filename F, every search result with that image's id reports
\* filename F, never "Unknown".
C13_SearchReportsStoredFilename ==
    SearchReturned =>
        \A k \in DOMAIN res.results :
            LET metadata == calls[2].returned[k].metadata
            IN  StoredByUpload(metadata) =>
                    /\ res.results[k].filename = metadata.fileName
                    /\ res.results[k].filename # "Unknown"

\* ---- batch validation

\* the last operation was POST /upload/batch
BatchPosted == op = "POST /upload/batch"

\* some file of the batch has no content type or one that does not start
\* with "image/"
SomeFileNotImage ==
    \E k \in DOMAIN req.files : ~IsImageContentType(req.files[k].content_type)

\* no file of the batch decodes or is upserted
EveryFileFails == \A k \in DOMAIN req.files : ~FileSucceeds(k)

\* C14: POST /upload/batch checks the content type of every file before it
\* processes any: when a file's content type is missing or does not start
\* with "image/" the response is 400, no file is read, embedded or upserted
\* and the index is unchanged; otherwise the response is 200 with the
\* service's result, even when every file fails in the service.
C14_BatchValidatedBeforeAnyFile ==
    [][ BatchPosted' =>
            IF SomeFileNotImage'
            THEN /\ http'.status = 400
                 /\ calls' = <<>>
                 /\ res' = NoResult
                 /\ store' = store
            ELSE /\ http'.status = 200
                 /\ http'.body = res'
                 /\ res' # NoResult
                 /\ EveryFileFails' =>
                        /\ res'.total_uploaded = 0
                        /\ res'.total_failed = Len(req'.files)
                        /\ store' = store ]_vars

\* a batch whose first file is a good image and whose second file is not an
\* image was rejected, on an index that holds an item
C14_Witness ==
    /\ BatchPosted
    /\ Len(req.files) >= 2
    /\ IsImageContentType(req.files[1].content_type)
    /\ Decodable(req.files[1])
    /\ req.faults[1] = "none"
    /\ ~IsImageContentType(req.files[2].content_type)
    /\ http.status = 400
    /\ calls = <<>>
    /\ TotalVectors(store) >= 1

====
